---------------------------- MODULE Spec2Model ----------------------------
(***************************************************************************)
(* A model of joyanedel/redis-clone: the RESP codec (src/src/resp.rs), the *)
(* command conversion (src/src/commands.rs) and the accept loop and        *)
(* per-connection task (src/src/main.rs).                                  *)
(*                                                                         *)
(* Text is a sequence of one-character strings.  A Rust panic (todo!,      *)
(* unimplemented!, expect, an index out of bounds) is an explicit outcome  *)
(* [kind |-> "Panic", site |-> ...].                                       *)
(***************************************************************************)
EXTENDS Integers, Sequences, FiniteSets

(***************************************************************************)
(* Characters                                                              *)
(***************************************************************************)
CR == "\r"
LF == "\n"
CRLF == <<CR, LF>>
NUL == "NUL"
Digits == {"0", "1", "2", "3", "4", "5", "6", "7", "8", "9"}

DigitVal(c) ==
  CASE c = "0" -> 0 [] c = "1" -> 1 [] c = "2" -> 2 [] c = "3" -> 3
    [] c = "4" -> 4 [] c = "5" -> 5 [] c = "6" -> 6 [] c = "7" -> 7
    [] c = "8" -> 8 [] c = "9" -> 9

DigitChar(d) == CHOOSE c \in Digits : DigitVal(c) = d

\* i64::MAX and usize::MAX (64-bit target) as decimal digit strings: the
\* integer parsers reject a digit string above them.
I64MaxDigits ==
  <<"9", "2", "2", "3", "3", "7", "2", "0", "3", "6", "8", "5", "4", "7", "7",
    "5", "8", "0", "7">>
I64MinDigits ==
  <<"9", "2", "2", "3", "3", "7", "2", "0", "3", "6", "8", "5", "4", "7", "7",
    "5", "8", "0", "8">>
USizeMaxDigits ==
  <<"1", "8", "4", "4", "6", "7", "4", "4", "0", "7", "3", "7", "0", "9", "5",
    "5", "1", "6", "1", "5">>

(***************************************************************************)
(* RESPValues (resp.rs:3-21)                                               *)
(***************************************************************************)
SimpleString(s) == [tag |-> "SimpleString", str |-> s]
SimpleError(s) == [tag |-> "SimpleError", err |-> s]
Integer(n) == [tag |-> "Integer", int |-> n]
BulkString(s) == [tag |-> "BulkString", bulk |-> s]
Array(vs) == [tag |-> "Array", items |-> vs]
Null == [tag |-> "Null"]
BigNumber == [tag |-> "BigNumber"]

\* Outcomes of a Rust call: a returned value, or a panic unwinding the caller.
Ok(v) == [kind |-> "Ok", val |-> v]
Panic(site) == [kind |-> "Panic", site |-> site]

(***************************************************************************)
(* String helpers: what str::split_once, str::split(..).next(),            *)
(* str::replacen, i64/usize parsing and integer formatting compute.        *)
(***************************************************************************)
\* Index of the first occurrence of pat in s, 0 when there is none.
Find(s, pat) ==
  LET n == Len(pat)
      At(i) == \A j \in 1..n : s[i + j - 1] = pat[j]
      Starts == 1..(Len(s) - n + 1)
  IN  IF \E i \in Starts : At(i)
      THEN CHOOSE i \in Starts : At(i) /\ \A k \in 1..(i - 1) : ~At(k)
      ELSE 0

\* str::split_once("\r\n"): the text before and after the first CRLF.
SplitOnce(value) ==
  LET i == Find(value, CRLF)
  IN  IF i = 0 THEN [found |-> FALSE]
      ELSE [found |-> TRUE,
            first |-> SubSeq(value, 1, i - 1),
            rest |-> SubSeq(value, i + 2, Len(value))]

\* rest.split("\r\n").next(): the text before the first CRLF, or all of it.
SplitNext(rest) ==
  LET i == Find(rest, CRLF)
  IN  IF i = 0 THEN rest ELSE SubSeq(rest, 1, i - 1)

\* str::replacen(pat, "", 1): s without the first occurrence of pat.
Replacen(s, pat) ==
  LET i == Find(s, pat)
  IN  IF i = 0 THEN s
      ELSE SubSeq(s, 1, i - 1) \o SubSeq(s, i + Len(pat), Len(s))

AllDigits(s) == \A i \in 1..Len(s) : s[i] \in Digits

RECURSIVE StripZeros(_)
StripZeros(ds) ==
  IF Len(ds) > 1 /\ Head(ds) = "0" THEN StripZeros(Tail(ds)) ELSE ds

RECURSIVE DigitsLE(_, _)
DigitsLE(a, b) ==
  IF a = <<>> THEN TRUE
  ELSE IF DigitVal(Head(a)) # DigitVal(Head(b))
       THEN DigitVal(Head(a)) < DigitVal(Head(b))
       ELSE DigitsLE(Tail(a), Tail(b))

\* The digit string denotes a number no greater than the one max denotes.
FitsIn(ds, max) ==
  LET s == StripZeros(ds)
  IN  Len(s) < Len(max) \/ (Len(s) = Len(max) /\ DigitsLE(s, max))

RECURSIVE DigitsValue(_)
DigitsValue(ds) ==
  IF ds = <<>> THEN 0
  ELSE 10 * DigitsValue(SubSeq(ds, 1, Len(ds) - 1)) + DigitVal(ds[Len(ds)])

\* str::parse::<i64>() on text the integer regex accepted: [+-]?digits.
ParseI64(s) ==
  LET neg == Head(s) = "-"
      ds == IF Head(s) \in {"+", "-"} THEN Tail(s) ELSE s
  IN  IF FitsIn(ds, IF neg THEN I64MinDigits ELSE I64MaxDigits)
      THEN [ok |-> TRUE,
            v |-> IF neg THEN 0 - DigitsValue(ds) ELSE DigitsValue(ds)]
      ELSE [ok |-> FALSE]

\* str::parse::<usize>() on a digit string.
ParseUSize(ds) ==
  IF FitsIn(ds, USizeMaxDigits)
  THEN [ok |-> TRUE, v |-> DigitsValue(ds)]
  ELSE [ok |-> FALSE]

RECURSIVE FormatNat(_)
FormatNat(n) ==
  IF n < 10 THEN <<DigitChar(n)>>
  ELSE FormatNat(n \div 10) \o <<DigitChar(n % 10)>>

\* FormatInt with a plausible slip: an explicit sign on every number.
FormatIntSigned(n) ==
  IF n < 0 THEN <<"-">> \o FormatNat(0 - n) ELSE <<"+">> \o FormatNat(n)

\* Display of an integer: canonical decimal, "-" only when negative.
FormatInt(n) == IF n < 0 THEN <<"-">> \o FormatNat(0 - n) ELSE FormatNat(n)

(***************************************************************************)
(* impl ToString for RESPValues (resp.rs:100-116)                          *)
(***************************************************************************)
RECURSIVE ToStringOk(_)
\* to_string returns (no unimplemented!() is reached).
ToStringOk(v) ==
  CASE v.tag \in {"SimpleString", "SimpleError", "Integer", "BulkString"} -> TRUE
    [] v.tag = "Array" -> \A i \in 1..Len(v.items) : ToStringOk(v.items[i])
    [] OTHER -> FALSE

RECURSIVE ToString(_)
RECURSIVE JoinToString(_)
JoinToString(vs) ==
  IF vs = <<>> THEN <<>> ELSE ToString(Head(vs)) \o JoinToString(Tail(vs))

ToString(v) ==
  CASE v.tag = "SimpleString" -> <<"+">> \o v.str \o CRLF
    [] v.tag = "SimpleError" -> <<"-">> \o v.err \o CRLF
    [] v.tag = "Integer" -> <<":">> \o FormatInt(v.int) \o CRLF
    [] v.tag = "BulkString" ->
         <<"$">> \o FormatNat(Len(v.bulk)) \o CRLF \o v.bulk \o CRLF
    [] v.tag = "Array" ->
         <<"*">> \o FormatNat(Len(v.items)) \o CRLF \o JoinToString(v.items)

(***************************************************************************)
(* impl TryFrom<&str> for RESPValues (resp.rs:23-98)                       *)
(***************************************************************************)
\* `.` of the regex crate: any character but \n.
NoLF(s) == \A i \in 1..Len(s) : s[i] # LF

\* ^\+(?<value>.+)$
MatchSimpleString(first) ==
  Len(first) >= 2 /\ first[1] = "+" /\ NoLF(Tail(first))

\* ^-(?<value>.+)$
MatchSimpleError(first) ==
  Len(first) >= 2 /\ first[1] = "-" /\ NoLF(Tail(first))

\* ^:(?<value>(\+|-)?\d+)$
MatchInteger(first) ==
  /\ Len(first) >= 2
  /\ first[1] = ":"
  /\ LET body == Tail(first)
         ds == IF Head(body) \in {"+", "-"} THEN Tail(body) ELSE body
     IN  ds # <<>> /\ AllDigits(ds)

\* ^\$\d+   (no end anchor: only "$" and one digit are required)
MatchBulkString(first) ==
  Len(first) >= 2 /\ first[1] = "$" /\ first[2] \in Digits

\* ^\*(?<array_length>\d+)$
MatchArray(first) ==
  Len(first) >= 2 /\ first[1] = "*" /\ AllDigits(Tail(first))

RECURSIVE TryFrom(_)
RECURSIVE ArrayLoop(_, _, _)
\* The for loop of the array branch (resp.rs:83-91), k iterations left.
ArrayLoop(k, remaining_elements, array) ==
  IF k = 0 THEN Ok(Array(array))
  ELSE LET r == TryFrom(remaining_elements)
       IN  IF r.kind = "Panic" THEN r
           ELSE IF ~ToStringOk(r.val) THEN Panic("to_string: unimplemented")
           ELSE ArrayLoop(k - 1,
                          Replacen(remaining_elements, ToString(r.val)),
                          Append(array, r.val))

TryFrom(value) ==
  IF Len(value) = 0 THEN Panic("Returns error if len of value is 0")
  ELSE LET sp == SplitOnce(value)
       IN  IF ~sp.found THEN Panic("Handle split once")
           ELSE LET first_element == sp.first
                    rest_elements == sp.rest
                IN  IF MatchSimpleString(first_element)
                    THEN Ok(SimpleString(Tail(first_element)))
                    ELSE IF MatchSimpleError(first_element)
                    THEN Ok(SimpleError(Tail(first_element)))
                    ELSE IF MatchInteger(first_element)
                    THEN LET p == ParseI64(Tail(first_element))
                         IN  IF p.ok THEN Ok(Integer(p.v))
                             ELSE Panic("Resolve Error in integer match")
                    ELSE IF MatchBulkString(first_element)
                    THEN Ok(BulkString(SplitNext(rest_elements)))
                    ELSE IF MatchArray(first_element)
                    THEN LET n == ParseUSize(Tail(first_element))
                         IN  IF n.ok THEN ArrayLoop(n.v, rest_elements, <<>>)
                             ELSE Panic("Array size not usize parseable")
                    ELSE Ok(BigNumber)

(***************************************************************************)
(* RedisCommand (commands.rs:3-8) and impl TryFrom<RESPValues> for         *)
(* RedisCommand (commands.rs:10-49)                                        *)
(***************************************************************************)
Some(v) == [some |-> TRUE, v |-> v]
None == [some |-> FALSE]

Ping(echoed) == [cmd |-> "Ping", echoed |-> echoed]
Echo(s) == [cmd |-> "Echo", payload |-> s]
CommandDocs(sub) == [cmd |-> "CommandDocs", sub |-> sub]

PING == <<"P", "I", "N", "G">>
ECHO == <<"E", "C", "H", "O">>
COMMAND == <<"C", "O", "M", "M", "A", "N", "D">>
DOCS == <<"D", "O", "C", "S">>
PONG == <<"P", "O", "N", "G">>

\* array.get(i).and_then(|v| match v { BulkString(s) => Some(s), _ => None }),
\* i counted from 0 as in the source.
GetBulk(array, i) ==
  IF i + 1 <= Len(array) /\ array[i + 1].tag = "BulkString"
  THEN Some(array[i + 1].bulk)
  ELSE None

RedisCommandTryFrom(value) ==
  IF ~(value.tag = "Array" /\ value.items # <<>>)
  THEN Panic("Handle value not being array variant of RESPValues")
  ELSE LET array == value.items
       IN  IF array[1] = BulkString(COMMAND) /\ Len(array) < 2
           THEN Panic("index out of bounds: array[1]")
           ELSE IF array[1] = BulkString(COMMAND) /\ array[2] = BulkString(DOCS)
           THEN Ok(CommandDocs(GetBulk(array, 2)))
           ELSE IF array[1] = BulkString(PING)
           THEN Ok(Ping(GetBulk(array, 1)))
           ELSE IF array[1] = BulkString(ECHO)
           THEN LET e == GetBulk(array, 1)
                IN  IF e.some THEN Ok(Echo(e.v))
                    ELSE Panic("raise an error if echoed string is absent in echo command")
           ELSE Panic("unimplemented: RedisCommand::try_from")

(***************************************************************************)
(* main.rs: parse_command, reply_command_to_client                         *)
(***************************************************************************)
\* The size of the read buffer, all of which is converted to the command text.
BufSize == 512

\* String::from_utf8_lossy(&buf) after a read of data into a zeroed buffer.
BufText(data) == data \o [i \in 1..(BufSize - Len(data)) |-> NUL]

\* parse_command: .expect never fires (try_from returns no Err); a panic
\* inside either conversion unwinds through it.
parse_command(command) ==
  LET client_input == TryFrom(command)
  IN  IF client_input.kind = "Panic" THEN client_input
      ELSE RedisCommandTryFrom(client_input.val)

Quoted(v) == <<"+", "\"">> \o v \o <<"\"">> \o CRLF

\* The bytes reply_command_to_client hands to try_write, or its panic.
reply_command_to_client(command) ==
  IF command.cmd = "Ping" /\ command.echoed.some THEN Ok(Quoted(command.echoed.v))
  ELSE IF command.cmd = "Ping" THEN Ok(<<"+">> \o PONG \o CRLF)
  ELSE IF command.cmd = "Echo" THEN Ok(Quoted(command.payload))
  ELSE Panic("unimplemented: reply_command_to_client")

(***************************************************************************)
(* Bounds and input sets                                                   *)
(***************************************************************************)
MaxStrLen == 2      \* longest string payload drawn for the codec
MaxArrayLen == 2    \* longest array drawn for the codec
MaxFrags == 3       \* most wire fragments concatenated into a raw input
NConns == 2         \* client connections
NWorkers == 1       \* worker threads of the runtime
MaxSends == 2       \* sends of one client
MaxReads == 2       \* reads that deliver data on one connection
MaxIntLen == 3      \* longest generated body of a ":" line

RECURSIVE SeqsUpTo(_, _)
\* The sequences over S of length at most n.
SeqsUpTo(S, n) ==
  IF n = 0 THEN {<<>>}
  ELSE LET P == SeqsUpTo(S, n - 1)
       IN  P \cup {Append(q, e) : q \in {r \in P : Len(r) = n - 1}, e \in S}

RECURSIVE Concat(_)
Concat(ss) == IF ss = <<>> THEN <<>> ELSE Head(ss) \o Concat(Tail(ss))

LineStrings == SeqsUpTo({"a", "1"}, MaxStrLen)
BulkStrings == SeqsUpTo({"a", CR, LF}, MaxStrLen)
Ints == {0 - 12, 0 - 1, 0, 7, 10}

Scalars ==
  {SimpleString(t) : t \in LineStrings} \cup {SimpleError(t) : t \in LineStrings}
    \cup {Integer(n) : n \in Ints} \cup {BulkString(t) : t \in BulkStrings}

Leaves ==
  {SimpleString(<<"a">>), SimpleError(<<"1">>), Integer(0 - 1),
   BulkString(<<>>), BulkString(<<"a">>)}

InnerArrays ==
  {Array(<<>>), Array(<<Integer(7)>>), Array(<<Array(<<BulkString(<<"a">>)>>)>>)}

Arrays == {Array(vs) : vs \in SeqsUpTo(Leaves \cup InnerArrays, MaxArrayLen)}

\* The values handed to the encoder.
Values == Scalars \cup Arrays

\* Pieces of wire text; a raw decoder input is a concatenation of them.
Fragments ==
  {<<"*", "2">> \o CRLF, <<"*", "1">> \o CRLF, <<"*", "0">> \o CRLF,
   <<"*", "-", "1">> \o CRLF, <<"$", "-", "1">> \o CRLF, <<"$", "0">> \o CRLF,
   <<"$", "1">> \o CRLF, CRLF, <<"a">> \o CRLF, <<":", "1">> \o CRLF,
   <<":", "+", "1">> \o CRLF, <<"+", "a">> \o CRLF}

RawInputs == {Concat(fs) : fs \in SeqsUpTo(Fragments, MaxFrags)}

\* Bodies of ":" lines: short ones over signs, digits and a letter, and two
\* that lie one past the ends of the i64 range.
OverflowBodies == {Append(SubSeq(I64MaxDigits, 1, 18), "8"),
                   <<"-">> \o Append(SubSeq(I64MinDigits, 1, 18), "9")}

IntegerBodies == SeqsUpTo({"+", "-", "0", "7", "a"}, MaxIntLen) \cup OverflowBodies

IntegerLines == {<<":">> \o b \o CRLF : b \in IntegerBodies}

NoValue == [tag |-> "NoValue"]
NoResult == [kind |-> "NoResult"]

Conns == 1..NConns

\* A request: an array of bulk strings.
Req(words) == Array([i \in 1..Len(words) |-> BulkString(words[i])])

hi == <<"h", "i">>
SET == <<"S", "E", "T">>
ping == <<"p", "i", "n", "g">>

\* Requests PING, PING hi and ECHO hi: the ones the code answers.
ValidRequests == {Req(<<PING>>), Req(<<PING, hi>>), Req(<<ECHO, hi>>)}

\* Other well-formed values a client may send whole.
OtherRequests ==
  {Req(<<ECHO>>), Req(<<COMMAND>>), Req(<<COMMAND, DOCS>>),
   Req(<<COMMAND, DOCS, SET>>), Req(<<ping>>), Req(<<SET, hi>>),
   SimpleString(<<"O", "K">>), Integer(1), Array(<<>>),
   Array(<<BulkString(PING), Integer(1)>>), Array(<<Integer(1)>>),
   Req(<<ECHO, <<"a", LF>>>>)}

(***************************************************************************)
(* State                                                                   *)
(***************************************************************************)
VARIABLES
  cpc,       \* codec run: "off", "value", "wire", "done"
  cval,      \* the value handed to the encoder, or NoValue
  wire,      \* the text handed to the decoder
  dec,       \* the decoder's outcome
  status,    \* per connection: "none", "lost" (accept failed), "spawned",
             \* "running", "closed", "failed" (the task returned Err),
             \* "panicked"
  fault,     \* per connection: the site of the task's panic, or ""
  sock,      \* per connection: bytes sent by the client and not yet read
  peer,      \* per connection: "open", or "shut" once the client has closed
  tail,      \* per connection: the rest of a frame the client sent in part
  sent,      \* per connection: number of client sends
  reads,     \* per connection: the data of each read that delivered bytes
  requests,  \* per connection: each value decoded and handed to the dispatcher
  replies,   \* per connection: the bytes of each reply written
  accepting  \* main's accept loop is running

codecVars == <<cpc, cval, wire, dec>>
connVars == <<status, fault, sock, peer, tail, sent, reads, requests, replies,
             accepting>>
vars == <<cpc, cval, wire, dec, status, fault, sock, peer, tail, sent, reads,
          requests, replies, accepting>>

ConnInit ==
  /\ status = [c \in Conns |-> "none"]
  /\ fault = [c \in Conns |-> ""]
  /\ sock = [c \in Conns |-> <<>>]
  /\ peer = [c \in Conns |-> "open"]
  /\ tail = [c \in Conns |-> <<>>]
  /\ sent = [c \in Conns |-> 0]
  /\ reads = [c \in Conns |-> <<>>]
  /\ requests = [c \in Conns |-> <<>>]
  /\ replies = [c \in Conns |-> <<>>]
  /\ accepting = TRUE

(***************************************************************************)
(* The codec run on its own: a value is encoded and the text decoded, or a *)
(* raw text is decoded.                                                    *)
(***************************************************************************)
InitCodec ==
  /\ ConnInit
  /\ dec = NoResult
  /\ \/ cpc = "value" /\ cval \in Values /\ wire = <<>>
     \/ cpc = "wire" /\ cval = NoValue /\ wire \in RawInputs \cup IntegerLines

\* v.to_string()
Encode ==
  /\ cpc = "value"
  /\ wire' = ToString(cval)
  /\ cpc' = "wire"
  /\ UNCHANGED <<cval, dec, connVars>>

\* RESPValues::try_from(wire)
Decode ==
  /\ cpc = "wire"
  /\ dec' = TryFrom(wire)
  /\ cpc' = "done"
  /\ UNCHANGED <<cval, wire, connVars>>

NextCodec == Encode \/ Decode

SpecCodec == InitCodec /\ [][NextCodec]_vars

(***************************************************************************)
(* The server: main's accept loop (main.rs:10-22), the runtime starting a  *)
(* spawned task on a free worker, the clients, and one iteration of        *)
(* accept_connection's loop (main.rs:24-49) per step.                      *)
(***************************************************************************)
Init ==
  /\ ConnInit
  /\ cpc = "off"
  /\ cval = NoValue
  /\ wire = <<>>
  /\ dec = NoResult

ValidFrames == {ToString(v) : v \in ValidRequests}
WholeFrames == {ToString(v) : v \in ValidRequests \cup OtherRequests}

\* The frames the clients of the many-connection server draw from.
ServerFrames == {ToString(Req(<<PING>>)), ToString(Req(<<ECHO>>))}

\* Outcomes of TcpStream::try_write.
WriteOutcomes == {"ok", "wouldblock", "error"}

\* The end of c's task ("closed", "failed" or "panicked") as if the panic or
\* the error unwound the process: every other task is torn down with it
\* and the accept loop is gone.
ProcessUnwinds(c, how) ==
  [status |-> [d \in Conns |->
                 IF d = c THEN how
                 ELSE IF status[d] \in {"spawned", "running"} THEN "aborted"
                 ELSE status[d]],
   accepting |-> FALSE]

\* The end of c's task: tokio::spawn runs accept_connection as a task of
\* its own and main drops the JoinHandle, so the task's result or panic
\* stays with the task; the other tasks and the accept loop go on.
TaskEnd(c, how) ==
  [status |-> [status EXCEPT ![c] = how], accepting |-> accepting]

\* server.accept() returns Ok and the connection's task is spawned.
Accept(c) ==
  /\ accepting
  /\ status[c] = "none"
  /\ status' = [status EXCEPT ![c] = "spawned"]
  /\ UNCHANGED <<codecVars, accepting, fault, sock, peer, tail, sent, reads,
                 requests, replies>>

\* server.accept() returns Err: a line on stderr, and the loop goes on.  The
\* connection that was being set up is lost.
AcceptError(c) ==
  /\ accepting
  /\ status[c] = "none"
  /\ status' = [status EXCEPT ![c] = "lost"]
  /\ UNCHANGED <<codecVars, accepting, fault, sock, peer, tail, sent, reads,
                 requests, replies>>

\* A free worker thread starts polling the spawned task.
Poll(c) ==
  /\ status[c] = "spawned"
  /\ Cardinality({d \in Conns : status[d] = "running"}) < NWorkers
  /\ status' = [status EXCEPT ![c] = "running"]
  /\ UNCHANGED <<codecVars, accepting, fault, sock, peer, tail, sent, reads,
                 requests, replies>>

\* The client sends the first k bytes of frame f; a frame is sent in part
\* only when it is a valid request and nothing else is in flight.
ClientSend(c, f, k) ==
  /\ status[c] \in {"spawned", "running"}
  /\ peer[c] = "open"
  /\ tail[c] = <<>>
  /\ sent[c] < MaxSends
  /\ k < Len(f) => f \in ValidFrames /\ sock[c] = <<>>
  /\ sock' = [sock EXCEPT ![c] = @ \o SubSeq(f, 1, k)]
  /\ tail' = [tail EXCEPT ![c] = SubSeq(f, k + 1, Len(f))]
  /\ sent' = [sent EXCEPT ![c] = @ + 1]
  /\ UNCHANGED <<codecVars, accepting, status, fault, peer, reads, requests,
                 replies>>

\* The client sends the rest of the frame it sent in part.
ClientSendRest(c) ==
  /\ status[c] \in {"spawned", "running"}
  /\ peer[c] = "open"
  /\ tail[c] # <<>>
  /\ sock' = [sock EXCEPT ![c] = @ \o tail[c]]
  /\ tail' = [tail EXCEPT ![c] = <<>>]
  /\ UNCHANGED <<codecVars, accepting, status, fault, peer, sent, reads,
                 requests, replies>>

\* The client closes its side of the connection.
ClientClose(c) ==
  /\ status[c] \in {"spawned", "running"}
  /\ peer[c] = "open"
  /\ tail[c] = <<>>
  /\ peer' = [peer EXCEPT ![c] = "shut"]
  /\ UNCHANGED <<codecVars, accepting, status, fault, sock, tail, sent, reads,
                 requests, replies>>

\* try_read returns Ok(0): break, the task returns Ok(()).
ReadEof(c) ==
  /\ status[c] = "running"
  /\ sock[c] = <<>>
  /\ peer[c] = "shut"
  /\ status' = TaskEnd(c, "closed").status
  /\ accepting' = TaskEnd(c, "closed").accepting
  /\ UNCHANGED <<codecVars, fault, sock, peer, tail, sent, reads, requests,
                 replies>>

\* try_read returns Err(WouldBlock): continue.
ReadWouldBlock(c) ==
  /\ status[c] = "running"
  /\ sock[c] = <<>>
  /\ peer[c] = "open"
  /\ UNCHANGED vars

\* try_read returns another Err(e): return Err(e).
ReadError(c) ==
  /\ status[c] = "running"
  /\ status' = TaskEnd(c, "failed").status
  /\ accepting' = TaskEnd(c, "failed").accepting
  /\ UNCHANGED <<codecVars, fault, sock, peer, tail, sent, reads, requests,
                 replies>>

WriteFault(w) ==
  IF w = "wouldblock" THEN "couldn't respond to client: WouldBlock"
  ELSE "couldn't respond to client: io error"

\* try_read returns Ok(n), n > 0: the buffer is parsed as one command and
\* the reply is written; try_write's outcome is w.
ReadData(c, w) ==
  /\ status[c] = "running"
  /\ sock[c] # <<>>
  /\ Len(reads[c]) < MaxReads
  /\ LET n == IF Len(sock[c]) < BufSize THEN Len(sock[c]) ELSE BufSize
         data == SubSeq(sock[c], 1, n)
         command == BufText(data)
         client_input == TryFrom(command)
         parsed == parse_command(command)
         reply == IF parsed.kind = "Ok" THEN reply_command_to_client(parsed.val)
                  ELSE parsed
         panic == IF reply.kind = "Panic" THEN reply.site
                  ELSE IF w # "ok" THEN WriteFault(w)
                  ELSE ""
     IN  /\ sock' = [sock EXCEPT ![c] = SubSeq(@, n + 1, Len(@))]
         /\ reads' = [reads EXCEPT ![c] = Append(@, data)]
         /\ requests' = [requests EXCEPT ![c] =
                           IF client_input.kind = "Ok"
                           THEN Append(@, client_input.val) ELSE @]
         /\ replies' = [replies EXCEPT ![c] =
                          IF panic = "" THEN Append(@, reply.val) ELSE @]
         /\ status' = IF panic = "" THEN status
                       ELSE TaskEnd(c, "panicked").status
         /\ accepting' = IF panic = "" THEN accepting
                          ELSE TaskEnd(c, "panicked").accepting
         /\ fault' = [fault EXCEPT ![c] = panic]
  /\ UNCHANGED <<codecVars, peer, tail, sent>>

\* The steps of connection c when its client draws its frames from F.
Step(c, F) ==
  \/ Accept(c)
  \/ AcceptError(c)
  \/ Poll(c)
  \/ \E f \in F : \E k \in 1..Len(f) : ClientSend(c, f, k)
  \/ ClientSendRest(c)
  \/ ClientClose(c)
  \/ ReadEof(c)
  \/ ReadWouldBlock(c)
  \/ ReadError(c)
  \/ \E w \in WriteOutcomes : ReadData(c, w)

\* Every connection, each client drawing from ServerFrames.
Next == \E c \in Conns : Step(c, ServerFrames)

\* One connection whose client draws from all the frames.
NextConn == Step(1, WholeFrames)

Spec == Init /\ [][Next]_vars

SpecConn == Init /\ [][NextConn]_vars

(***************************************************************************)
(* The server under fair scheduling, with well-behaved clients and a       *)
(* transport without faults: each client sends whole PING frames, reads    *)
(* and writes succeed.  The accept loop takes every connection that        *)
(* arrives; the runtime starts a spawned task as soon as a worker thread   *)
(* stays free; a task that has been started runs its loop.  A task gives   *)
(* its worker back only by ending: accept_connection holds no .await, so   *)
(* a would-block read goes straight to the next try_read.                  *)
(***************************************************************************)
PingFrame == ToString(Req(<<PING>>))

NextFair ==
  \E c \in Conns :
    \/ Accept(c)
    \/ Poll(c)
    \/ ClientSend(c, PingFrame, Len(PingFrame))
    \/ ClientClose(c)
    \/ ReadEof(c)
    \/ ReadWouldBlock(c)
    \/ ReadData(c, "ok")

\* The guard of ReadData: the started task of c has unread bytes.
ReadReady(c) ==
  status[c] = "running" /\ sock[c] # <<>> /\ Len(reads[c]) < MaxReads

\* Weak fairness of each step of the accept loop, of the runtime and of a
\* started task.  For the read that delivers data it is written out: the
\* step is enabled exactly when ReadReady holds, and it is the one step
\* that extends reads[c].
Fairness ==
  \A c \in Conns :
    /\ WF_vars(Accept(c))
    /\ WF_vars(Poll(c))
    /\ WF_vars(ReadEof(c))
    /\ []<>(~ReadReady(c)) \/ []<><<reads'[c] # reads[c]>>_vars

SpecFair == Init /\ [][NextFair]_vars /\ Fairness

(***************************************************************************)
(* Vocabulary of the claims                                                *)
(***************************************************************************)
Last(q) == q[Len(q)]

\* The task of c ended in try_write's .expect, not in parsing or dispatch.
WriteFailed(c) == fault[c] \in {WriteFault(w) : w \in WriteOutcomes \ {"ok"}}

\* The i-th request of c arrived whole, as the only frame of its read.
\* (Read i delivered request i: a read that yields no request ends the task.)
ArrivedWhole(c, i) == reads[c][i] \in WholeFrames

\* The task of c panicked while converting or answering its i-th request.
PanickedOn(c, i) ==
  /\ status[c] = "panicked"
  /\ ~WriteFailed(c)
  /\ i = Len(requests[c])
  /\ Len(reads[c]) = i
  /\ Len(replies[c]) < i

\* The i-th request of c has its reply on the wire.
Replied(c, i) == i <= Len(replies[c])

\* The i-th request of c is answered with a simple error, once answered.
ErrorReplied(c, i) == Replied(c, i) => Head(replies[c][i]) = "-"

\* A non-empty array whose elements are all bulk strings.
CommandShaped(v) ==
  /\ v.tag = "Array"
  /\ v.items # <<>>
  /\ \A i \in 1..Len(v.items) : v.items[i].tag = "BulkString"

\* The well-formed element frames of the raw decoder inputs.
ElementFrames ==
  {<<":", "1">> \o CRLF, <<":", "+", "1">> \o CRLF, <<"+", "a">> \o CRLF,
   <<"$", "0">> \o CRLF \o CRLF, <<"*", "0">> \o CRLF}

\* An array header of count n followed by fewer than n element frames.
TruncatedArrays ==
  {<<"*">> \o FormatNat(n) \o CRLF \o Concat(es) :
     n \in 1..2, es \in SeqsUpTo(ElementFrames, 1)} \
  {<<"*", "1">> \o CRLF \o e : e \in ElementFrames}

(***************************************************************************)
(* C1 (as claimed).  Round trip: for every non-null SimpleString,          *)
(* SimpleError, Integer, BulkString or Array value v (single-line strings  *)
(* without CR/LF), decoding v.to_string() succeeds and yields v.           *)
(* The code breaks it: SimpleString("") encodes to "+\r\n", which decodes  *)
(* to BigNumber, and a bulk string holding CRLF is cut at the CRLF.        *)
(***************************************************************************)
C1_RoundTrip == cpc = "done" /\ cval # NoValue => dec = Ok(cval)

\* A nested array has been encoded and decoded.
C1_Witness ==
  /\ cpc = "done"
  /\ cval = Array(<<BulkString(<<"a">>), Array(<<Integer(7)>>)>>)
  /\ dec = Ok(cval)

(***************************************************************************)
(* C2 (as claimed).  Pipelining: when one read delivers the concatenation  *)
(* of two valid request frames, both requests are decoded and dispatched,  *)
(* in wire order, before the connection reads again.                       *)
(* The code parses the buffer as one command and drops the second frame.   *)
(***************************************************************************)
C2_Pipelining ==
  \A c \in Conns : \A v1 \in ValidRequests : \A v2 \in ValidRequests :
    reads[c] # <<>> /\ Last(reads[c]) = ToString(v1) \o ToString(v2)
      => /\ Len(requests[c]) >= 2
         /\ requests[c][Len(requests[c]) - 1] = v1
         /\ Last(requests[c]) = v2

\* One read delivered PING followed by ECHO hi and the iteration is over.
C2_Witness ==
  \E c \in Conns :
    /\ reads[c] = <<ToString(Req(<<PING>>)) \o ToString(Req(<<ECHO, hi>>))>>
    /\ Len(requests[c]) = 1
    /\ status[c] = "running"

(***************************************************************************)
(* C3 (as claimed).  Incremental feeding: when a valid request frame is    *)
(* split at any byte boundary and delivered in two successive reads, the   *)
(* first read dispatches nothing and leaves the connection open, and after *)
(* the second read exactly the one request of the whole frame is decoded.  *)
(* The code parses the partial frame at once and panics or dispatches      *)
(* what it cut out of it.                                                  *)
(***************************************************************************)
C3_IncrementalFeeding ==
  \A c \in Conns : \A v \in ValidRequests :
    LET f == ToString(v)
    IN  \A k \in 1..(Len(f) - 1) :
          /\ reads[c] = <<SubSeq(f, 1, k)>>
               => requests[c] = <<>> /\ replies[c] = <<>>
                    /\ status[c] # "panicked"
          /\ reads[c] = <<SubSeq(f, 1, k), SubSeq(f, k + 1, Len(f))>>
               => requests[c] = <<v>> /\ status[c] # "panicked"

\* The first half of a PING hi frame, cut inside the payload, has been read.
C3_Witness ==
  \E c \in Conns :
    LET f == ToString(Req(<<PING, hi>>))
    IN  /\ reads[c] = <<SubSeq(f, 1, Len(f) - 3)>>
        /\ tail[c] = SubSeq(f, Len(f) - 2, Len(f))
        /\ status[c] = "running"

(***************************************************************************)
(* C4 (as claimed).  PING dispatch: the reply written for the request      *)
(* [PING] is +PONG\r\n, and the reply written for [PING, p] is p as a bulk *)
(* string, $len\r\np\r\n, for every payload p.                             *)
(* The code writes the payload as the quoted simple string +"p"\r\n.       *)
(***************************************************************************)
C4_PingDispatch ==
  \A c \in Conns : \A i \in 1..Len(replies[c]) :
    LET r == requests[c][i]
    IN  /\ r = Req(<<PING>>) => replies[c][i] = ToString(SimpleString(PONG))
        /\ (ArrivedWhole(c, i) /\ CommandShaped(r) /\ Len(r.items) = 2
              /\ r.items[1] = BulkString(PING))
             => replies[c][i] = ToString(r.items[2])

\* PING hi arrived whole and its reply is written.
C4_Witness ==
  \E c \in Conns :
    /\ requests[c] = <<Req(<<PING, hi>>)>>
    /\ ArrivedWhole(c, 1)
    /\ Len(replies[c]) = 1

(***************************************************************************)
(* C5 (as claimed).  ECHO arity: the request [ECHO], with no argument, is  *)
(* answered with an error reply; the conversion does not panic and the     *)
(* connection stays open.                                                  *)
(* The code reaches todo!() and the connection's task panics.              *)
(***************************************************************************)
C5_EchoArity ==
  \A c \in Conns : \A i \in 1..Len(requests[c]) :
    requests[c][i] = Req(<<ECHO>>) /\ ArrivedWhole(c, i)
      => ~PanickedOn(c, i) /\ ErrorReplied(c, i)

\* ECHO without an argument has been decoded after an answered PING.
C5_Witness ==
  \E c \in Conns :
    /\ requests[c] = <<Req(<<PING>>), Req(<<ECHO>>)>>
    /\ Len(replies[c]) = 1
    /\ PanickedOn(c, 2)

(***************************************************************************)
(* C6 (as claimed).  Protocol errors: every decoded request that is not a  *)
(* non-empty array of bulk strings is answered with a simple error; the    *)
(* task does not panic and no command is accepted for it.                  *)
(* The code panics on a non-array or an empty array, and accepts PING      *)
(* followed by an integer as PING.                                         *)
(***************************************************************************)
C6_ProtocolErrors ==
  \A c \in Conns : \A i \in 1..Len(requests[c]) :
    ~CommandShaped(requests[c][i]) /\ ArrivedWhole(c, i)
      => ~PanickedOn(c, i) /\ ErrorReplied(c, i)

\* PING followed by an integer arrived whole and was answered.
C6_Witness ==
  \E c \in Conns :
    /\ requests[c] = <<Array(<<BulkString(PING), Integer(1)>>)>>
    /\ ArrivedWhole(c, 1)
    /\ replies[c] = <<ToString(SimpleString(PONG))>>

(***************************************************************************)
(* C7 (as claimed).  Unknown or unimplemented commands: a request whose    *)
(* first element is not PING, ECHO or COMMAND (names match by case), or    *)
(* that is COMMAND DOCS, whose handler is not implemented, is answered     *)
(* with an error reply and the task does not panic.                        *)
(* The code reaches unimplemented!() and the connection's task panics.     *)
(***************************************************************************)
C7_UnknownCommand ==
  \A c \in Conns : \A i \in 1..Len(requests[c]) :
    LET r == requests[c][i]
    IN  /\ ArrivedWhole(c, i)
        /\ CommandShaped(r)
        /\ \/ r.items[1].bulk \notin {PING, ECHO, COMMAND}
           \/ Len(r.items) >= 2 /\ r.items[1].bulk = COMMAND
                /\ r.items[2].bulk = DOCS
        => ~PanickedOn(c, i) /\ ErrorReplied(c, i)

\* SET hi, a command outside the table, arrived whole.
C7_Witness ==
  \E c \in Conns :
    /\ requests[c] = <<Req(<<SET, hi>>)>>
    /\ ArrivedWhole(c, 1)
    /\ status[c] = "panicked"

(***************************************************************************)
(* C8 (as claimed).  COMMAND DOCS never fails: a request whose first       *)
(* element is COMMAND is processed without a panic, and COMMAND DOCS       *)
(* [name] has a reply written to the client unless the write itself fails. *)
(* The code indexes array[1] of the one-element request [COMMAND], and     *)
(* reply_command_to_client has no arm for CommandDocs.                     *)
(***************************************************************************)
C8_CommandDocs ==
  \A c \in Conns : \A i \in 1..Len(requests[c]) :
    LET r == requests[c][i]
    IN  /\ ArrivedWhole(c, i)
        /\ CommandShaped(r)
        /\ r.items[1].bulk = COMMAND
        => /\ ~PanickedOn(c, i)
           /\ (Len(r.items) >= 2 /\ r.items[2].bulk = DOCS /\ ~WriteFailed(c))
                => Replied(c, i)

\* COMMAND DOCS SET arrived whole and was converted.
C8_Witness ==
  \E c \in Conns :
    /\ requests[c] = <<Req(<<COMMAND, DOCS, SET>>)>>
    /\ ArrivedWhole(c, 1)
    /\ fault[c] = "unimplemented: reply_command_to_client"

(***************************************************************************)
(* C9 (as claimed).  Truncated array: decoding an array header of count n  *)
(* followed by fewer than n well-formed elements and the end of the input  *)
(* yields Incomplete: the decoder neither returns a value nor panics.      *)
(* The code panics on the missing element, and for *2\r\n:+1\r\n returns   *)
(* the array [1, 1], decoding the one element twice.                       *)
(***************************************************************************)
C9_TruncatedArray ==
  cpc = "done" /\ wire \in TruncatedArrays => dec.kind \notin {"Ok", "Panic"}

\* The header *2 and the one element :+1 have been decoded.
C9_Witness ==
  /\ cpc = "done"
  /\ wire = <<"*", "2">> \o CRLF \o <<":", "+", "1">> \o CRLF
  /\ dec = Ok(Array(<<Integer(1), Integer(1)>>))

(***************************************************************************)
(* C10 (as claimed).  Null versus empty: $0\r\n\r\n decodes to the empty   *)
(* bulk string and *0\r\n to the empty array, and $-1\r\n and *-1\r\n      *)
(* decode to the null value, not to some other variant.                    *)
(* The code decodes both null frames to BigNumber.                         *)
(***************************************************************************)
C10_NullVersusEmpty ==
  cpc = "done" =>
    /\ wire = <<"$", "0">> \o CRLF \o CRLF => dec = Ok(BulkString(<<>>))
    /\ wire = <<"*", "0">> \o CRLF => dec = Ok(Array(<<>>))
    /\ wire \in {<<"$", "-", "1">> \o CRLF, <<"*", "-", "1">> \o CRLF}
         => dec = Ok(Null)

\* The null bulk string frame has been decoded.
C10_Witness ==
  /\ cpc = "done"
  /\ wire = <<"$", "-", "1">> \o CRLF
  /\ dec.kind = "Ok"

(***************************************************************************)
(* The wire format of spec section 4.2, as a recogniser of texts.          *)
(***************************************************************************)
\* ds is the canonical decimal of the natural number n: digits only, no
\* leading zero, denoting n.
CanonicalNat(ds, n) ==
  /\ ds # <<>>
  /\ AllDigits(ds)
  /\ Len(ds) = 1 \/ ds[1] # "0"
  /\ DigitsValue(ds) = n

RECURSIVE IsEncoding(_, _)
RECURSIVE AreEncodings(_, _)
\* w is the encodings of the values vs, one after the other.
AreEncodings(w, vs) ==
  IF vs = <<>> THEN w = <<>>
  ELSE \E k \in 1..Len(w) :
         /\ IsEncoding(SubSeq(w, 1, k), Head(vs))
         /\ AreEncodings(SubSeq(w, k + 1, Len(w)), Tail(vs))

\* w is the frame of the non-null value v.
IsEncoding(w, v) ==
  LET i == Find(w, CRLF)
      line == SubSeq(w, 2, i - 1)
      rest == SubSeq(w, i + 2, Len(w))
  IN  CASE v.tag = "SimpleString" -> w = <<"+">> \o v.str \o CRLF
        [] v.tag = "SimpleError" -> w = <<"-">> \o v.err \o CRLF
        [] v.tag = "Integer" ->
             /\ i > 1 /\ w[1] = ":" /\ rest = <<>>
             /\ IF v.int < 0
                THEN line # <<>> /\ Head(line) = "-"
                       /\ CanonicalNat(Tail(line), 0 - v.int)
                ELSE CanonicalNat(line, v.int)
        [] v.tag = "BulkString" ->
             /\ i > 1 /\ w[1] = "$"
             /\ CanonicalNat(line, Len(v.bulk))
             /\ rest = v.bulk \o CRLF
        [] v.tag = "Array" ->
             /\ i > 1 /\ w[1] = "*"
             /\ CanonicalNat(line, Len(v.items))
             /\ AreEncodings(rest, v.items)
        [] OTHER -> FALSE

(***************************************************************************)
(* C14.  Encoder format: for a non-null value, to_string yields +s\r\n for *)
(* SimpleString(s), -s\r\n for SimpleError(s), :n\r\n in canonical decimal *)
(* for Integer(n) ("-" only when negative), $len\r\n<bytes>\r\n with len   *)
(* the byte length for BulkString, and for an array *count\r\n followed by *)
(* the encodings of its elements in order, nested arrays included.         *)
(***************************************************************************)
C14_EncoderFormat ==
  cpc \in {"wire", "done"} /\ cval # NoValue => IsEncoding(wire, cval)

\* A nested array holding a negative integer has been encoded.
C14_Witness ==
  /\ cpc = "wire"
  /\ cval = Array(<<Integer(0 - 1), Array(<<Integer(7)>>)>>)
  /\ wire = <<"*", "2">> \o CRLF \o <<":", "-", "1">> \o CRLF
              \o <<"*", "1">> \o CRLF \o <<":", "7">> \o CRLF

(***************************************************************************)
(* Vocabulary of the decoder claims.                                       *)
(***************************************************************************)
\* What spec section 4.1 says each element frame decodes to.
ElementValue(f) ==
  CASE f = <<":", "1">> \o CRLF -> Integer(1)
    [] f = <<":", "+", "1">> \o CRLF -> Integer(1)
    [] f = <<"+", "a">> \o CRLF -> SimpleString(<<"a">>)
    [] f = <<"$", "0">> \o CRLF \o CRLF -> BulkString(<<>>)
    [] f = <<"*", "0">> \o CRLF -> Array(<<>>)

\* The tag bytes of spec section 3: the RESP2 core and the RESP3 stubs.
TypeTags == {"+", "-", ":", "$", "*", "_", "#", ",", "(", "!", "=", "%", "~", ">"}

\* The decoder reported an error value (neither a value nor a panic).
Malformed(d) == d.kind \notin {"Ok", "Panic", "NoResult"}

\* w opens with a bulk header $L\r\n, L a digit string.
IsBulkHeader(w) ==
  LET i == Find(w, CRLF)
  IN  /\ i > 2 /\ w[1] = "$"
      /\ AllDigits(SubSeq(w, 2, i - 1))
      /\ Len(StripZeros(SubSeq(w, 2, i - 1))) < 9

\* The body of a ":" line is [+-]?[0-9]+.
IntegerGrammar(b) ==
  LET ds == IF b # <<>> /\ Head(b) \in {"+", "-"} THEN Tail(b) ELSE b
  IN  ds # <<>> /\ AllDigits(ds)

\* The number a body of the integer grammar denotes.
IntegerValue(b) ==
  IF Head(b) = "-" THEN 0 - DigitsValue(Tail(b))
  ELSE IF Head(b) = "+" THEN DigitsValue(Tail(b))
  ELSE DigitsValue(b)

(***************************************************************************)
(* C15 (as claimed).  Array decoding advances a cursor: *n\r\n followed by *)
(* n well-formed child frames decodes to the array of exactly those n      *)
(* children in wire order, also when a child's bytes differ from its       *)
(* re-encoding (:+1) or when a child's encoding occurs again later.        *)
(* The code removes the child's re-encoding from the text instead of       *)
(* advancing: after :+1 nothing is removed and :+1 is decoded again.       *)
(***************************************************************************)
C15_ArrayCursor ==
  cpc = "done" =>
    \A es \in SeqsUpTo(ElementFrames, MaxArrayLen) :
      wire = <<"*">> \o FormatNat(Len(es)) \o CRLF \o Concat(es)
        => dec = Ok(Array([i \in 1..Len(es) |-> ElementValue(es[i])]))

\* *2, :+1, +a has been decoded, and the second child is :+1 once more.
C15_Witness ==
  /\ cpc = "done"
  /\ wire = <<"*", "2">> \o CRLF \o <<":", "+", "1">> \o CRLF \o <<"+", "a">> \o CRLF
  /\ dec = Ok(Array(<<Integer(1), Integer(1)>>))

(***************************************************************************)
(* C16 (as claimed).  Bulk framing by declared length: after $L\r\n the    *)
(* decoder returns exactly the next L bytes (CR and LF included), reports  *)
(* Incomplete when fewer than L+2 bytes follow and Malformed when the two  *)
(* bytes after the payload are not CRLF.                                   *)
(* The code ignores L and returns the text up to the next CRLF.            *)
(***************************************************************************)
C16_BulkFraming ==
  cpc = "done" /\ IsBulkHeader(wire) =>
    LET i == Find(wire, CRLF)
        L == DigitsValue(SubSeq(wire, 2, i - 1))
        rest == SubSeq(wire, i + 2, Len(wire))
    IN  IF Len(rest) >= L + 2 /\ SubSeq(rest, L + 1, L + 2) = CRLF
        THEN dec = Ok(BulkString(SubSeq(rest, 1, L)))
        ELSE Malformed(dec)

\* $0 followed by a\r\n has been decoded to a bulk string of one byte.
C16_Witness ==
  /\ cpc = "done"
  /\ wire = <<"$", "0">> \o CRLF \o <<"a">> \o CRLF
  /\ dec = Ok(BulkString(<<"a">>))

(***************************************************************************)
(* C17 (as claimed).  Unknown type tag: an input whose first byte is not a *)
(* type tag decodes to the Malformed error, never to a value.              *)
(* The code falls through every branch and returns Ok(BigNumber).          *)
(***************************************************************************)
C17_UnknownTag ==
  cpc = "done" /\ wire # <<>> /\ wire[1] \notin TypeTags => Malformed(dec)

\* The line a\r\n has been decoded to the stub variant.
C17_Witness ==
  /\ cpc = "done"
  /\ wire = <<"a">> \o CRLF
  /\ dec = Ok(BigNumber)

(***************************************************************************)
(* C18 (as claimed).  Integer grammar: a ":" line decodes to Integer(n)    *)
(* exactly when its body is [+-]?[0-9]+ and fits in an i64, n being its    *)
(* decimal value; an overflowing, empty or non-numeric body gives the      *)
(* Malformed error, never a panic and never a value.                       *)
(* The code panics on overflow and returns Ok(BigNumber) for the others.   *)
(***************************************************************************)
C18_IntegerGrammar ==
  cpc = "done" /\ wire \in IntegerLines =>
    LET b == SubSeq(wire, 2, Len(wire) - 2)
    IN  IF IntegerGrammar(b) /\ b \notin OverflowBodies
        THEN dec = Ok(Integer(IntegerValue(b)))
        ELSE Malformed(dec)

\* A body one past the largest i64 has been decoded, and the decoder panicked.
C18_Witness ==
  /\ cpc = "done"
  /\ wire = <<":">> \o Append(SubSeq(I64MaxDigits, 1, 18), "8") \o CRLF
  /\ dec.kind = "Panic"

(***************************************************************************)
(* Vocabulary of the connection claims.                                    *)
(***************************************************************************)
\* The task of the connection has ended.
Ended == {"closed", "failed", "panicked", "aborted"}

\* Everything the server and the client hold about connection d.
ConnState(d) ==
  <<status[d], fault[d], sock[d], peer[d], tail[d], sent[d], reads[d],
    requests[d], replies[d]>>

\* w is exactly one frame: a line type holds no CR or LF before its
\* terminator, any other type is the frame of some value.
OneFrame(w) ==
  IF w # <<>> /\ w[1] \in {"+", "-"}
  THEN /\ Len(w) >= 3
       /\ SubSeq(w, Len(w) - 1, Len(w)) = CRLF
       /\ \A i \in 2..(Len(w) - 2) : w[i] \notin {CR, LF}
  ELSE \E v \in Values : IsEncoding(w, v)

C12_FifoRequestReply ==
  \A c \in Conns : Len(replies[c]) = Len(requests[c])

\* PING was answered; SET hi was decoded next and was never answered.
C12_Witness ==
  \E c \in Conns :
    /\ requests[c] = <<Req(<<PING>>), Req(<<SET, hi>>)>>
    /\ Len(replies[c]) = 1
    /\ PanickedOn(c, 2)

(***************************************************************************)
(* C13 (as claimed).  Would-block tolerance: when the transport reports    *)
(* "would block", on a read or on a reply write, the loop waits and        *)
(* retries; no connection ends on it and no reply is lost.                 *)
(* The code retries a read, but a write that would block reaches .expect   *)
(* and the task panics with the reply unwritten.                           *)
(***************************************************************************)
C13_WouldBlockTolerance ==
  \A c \in Conns :
    fault[c] = WriteFault("wouldblock") =>
      status[c] = "running" /\ Len(replies[c]) = Len(requests[c])

\* PING was decoded, its reply's write would block, and the task is gone.
C13_Witness ==
  \E c \in Conns :
    /\ requests[c] = <<Req(<<PING>>)>>
    /\ replies[c] = <<>>
    /\ status[c] = "panicked"
    /\ fault[c] = WriteFault("wouldblock")

(***************************************************************************)
(* C19 (as claimed).  Replies are well-formed frames: the bytes written    *)
(* for one request (here: one that arrived whole) are exactly one frame,   *)
(* for every payload the decoder hands to PING or ECHO; a reply line holds *)
(* no CR or LF of its own.                                                 *)
(* The code copies the payload into a simple string as it is: a payload    *)
(* with a line feed gives a reply line with a line feed in it.             *)
(***************************************************************************)
C19_RepliesWellFormed ==
  \A c \in Conns : \A i \in 1..Len(replies[c]) :
    ArrivedWhole(c, i) => OneFrame(replies[c][i])

\* ECHO of the two bytes a, LF has been answered.
C19_Witness ==
  \E c \in Conns :
    /\ requests[c] = <<Req(<<ECHO, <<"a", LF>>>>)>>
    /\ ArrivedWhole(c, 1)
    /\ Len(replies[c]) = 1

(***************************************************************************)
(* C20 (as claimed).  No starvation between connections: under fair        *)
(* scheduling on a fixed number of worker threads, a connection that has   *)
(* sent a whole PING is eventually sent its reply, however many other      *)
(* connections are open and idle.                                          *)
(* The code's read loop never yields: an idle connection keeps its worker  *)
(* for as long as its client stays connected, and once every worker is     *)
(* held this way the task of a later connection is never started.          *)
(***************************************************************************)
C20_NoStarvation ==
  \A c \in Conns : (sent[c] > 0) ~> (replies[c] # <<>>)

\* Every worker is held by an idle connection whose client sent nothing,
\* and a connection that sent PING is still waiting to be started.
C20_Witness ==
  \E c \in Conns :
    /\ status[c] = "spawned"
    /\ sock[c] = PingFrame
    /\ replies[c] = <<>>
    /\ Cardinality({d \in Conns : /\ status[d] = "running"
                                  /\ sent[d] = 0
                                  /\ peer[d] = "open"}) = NWorkers

=============================================================================
